---- MODULE Spec2Model ----
(***************************************************************************)
(* Identity and account linking of PolkaAPI: AuthService (auth_service.py) *)
(* over the users and oauth_accounts tables (models.py), driven by the     *)
(* register and OAuth-login endpoints (main.py), under Spec; and password  *)
(* login, logout and the verification of access tokens (main.py), under    *)
(* SessionSpec; and the friend-request endpoints (main.py) over the        *)
(* friend_requests and friendships tables, under FriendSpec.               *)
(*                                                                         *)
(* Python strings are sequences of one-character strings.  A table is the  *)
(* set of its rows.  Every query of a handler and every commit is one      *)
(* atomic step; requests of different workers interleave between these     *)
(* steps.  The maintenance function database.drop_db is called by no       *)
(* endpoint: it is a step of MaintenanceSpec and of no other               *)
(* specification.  No handler under src/ succeeds in inserting a users *)
(* row (see create_user), so the users rows of a behaviour are those the   *)
(* table holds when the service starts.                                    *)
(***************************************************************************)
EXTENDS Integers, Sequences, FiniteSets, TLC

VARIABLES
    users,      \* rows of table "users"
    links,      \* rows of table "oauth_accounts"
    nextId,     \* source of fresh primary keys (uuid.uuid4())
    pc,         \* per worker: position inside the handler it runs
    loc,        \* per worker: the handler's arguments and local variables
    log,        \* finished calls, in order of completion
    nextSalt,   \* source of fresh salts (bcrypt.gensalt())
    now,        \* the clock datetime.utcnow() reads, in ticks
    issued,     \* access tokens handed to callers, with their time of issue
    friend_requests,    \* rows of table "friend_requests"
    friendships         \* rows of table "friendships"

vars == <<users, links, nextId, pc, loc, log, nextSalt, now, issued,
          friend_requests, friendships>>

(***************************************************************************)
(* Bounds of the model.                                                    *)
(***************************************************************************)
MaxCalls == 2           \* calls made in one behaviour
MaxRequests == 3        \* requests made in one behaviour of the session endpoints
MaxLate == 1            \* ticks past the lifetime of a token the clock is read at
MaxFriendRows == 3      \* rows the friend endpoints insert in one behaviour

Procs == {"w1", "w2"}   \* concurrent requests (workers sharing the store)

(***************************************************************************)
(* Strings.                                                                *)
(***************************************************************************)
LowerLetters ==
    {"a", "b", "c", "d", "e", "f", "g", "h", "i", "j", "k", "l", "m",
     "n", "o", "p", "q", "r", "s", "t", "u", "v", "w", "x", "y", "z"}
UpperLetters ==
    {"A", "B", "C", "D", "E", "F", "G", "H", "I", "J", "K", "L", "M",
     "N", "O", "P", "Q", "R", "S", "T", "U", "V", "W", "X", "Y", "Z"}
\* the ASCII letters: c.isalpha() for the characters of the model
Letters == LowerLetters \cup UpperLetters
Digits == {"0", "1", "2", "3", "4", "5", "6", "7", "8", "9"}

\* str.lower() on one character
UpperToLower ==
    [c \in UpperLetters |->
        CASE c = "A" -> "a" [] c = "B" -> "b" [] c = "C" -> "c" [] c = "D" -> "d"
          [] c = "E" -> "e" [] c = "F" -> "f" [] c = "G" -> "g" [] c = "H" -> "h"
          [] c = "I" -> "i" [] c = "J" -> "j" [] c = "K" -> "k" [] c = "L" -> "l"
          [] c = "M" -> "m" [] c = "N" -> "n" [] c = "O" -> "o" [] c = "P" -> "p"
          [] c = "Q" -> "q" [] c = "R" -> "r" [] c = "S" -> "s" [] c = "T" -> "t"
          [] c = "U" -> "u" [] c = "V" -> "v" [] c = "W" -> "w" [] c = "X" -> "x"
          [] c = "Y" -> "y" [] c = "Z" -> "z"]
LowerChar(c) == IF c \in UpperLetters THEN UpperToLower[c] ELSE c

\* str.lower()
Lower(s) == [i \in 1..Len(s) |-> LowerChar(s[i])]

\* c.isalnum() or c in '_-'
AllowedChar(c) == c \in Letters \cup Digits \/ c \in {"_", "-"}

\* ''.join(c for c in s if c.isalnum() or c in '_-')
FilterAllowed(s) == SelectSeq(s, AllowedChar)

\* s.split('@')[0]
LocalPart(s) ==
    LET ats == {i \in 1..Len(s) : s[i] = "@"}
        cut == IF ats = {} THEN Len(s) + 1
               ELSE CHOOSE i \in ats : \A j \in ats : i <= j
    IN  SubSeq(s, 1, cut - 1)

\* one decimal digit as a character
DigitChar(d) ==
    CASE d = 0 -> "0" [] d = 1 -> "1" [] d = 2 -> "2" [] d = 3 -> "3"
      [] d = 4 -> "4" [] d = 5 -> "5" [] d = 6 -> "6" [] d = 7 -> "7"
      [] d = 8 -> "8" [] d = 9 -> "9"

\* str(n) for n >= 0
RECURSIVE IntStr(_)
IntStr(n) == IF n < 10 THEN <<DigitChar(n)>>
             ELSE Append(IntStr(n \div 10), DigitChar(n % 10))

\* f"{base_username}{counter}"
Suffixed(base, counter) == base \o IntStr(counter)

s_user == <<"u", "s", "e", "r">>
s_al == <<"a", "l">>
s_al1 == <<"a", "l", "1">>
s_al2 == <<"a", "l", "2">>
s_bo == <<"b", "o">>
s_bob == <<"b", "o", "b">>
s_Al == <<"A", "l">>
s_bang == <<"!", "!">>
e_al == <<"a", "l", "@", "x", ".", "i", "o">>
e_bo == <<"b", "o", "@", "x", ".", "i", "o">>
e_c == <<"c", "@", "x", ".", "i", "o">>
e_dot == <<".", "@", "x", ".", "i", "o">>
e_bo2 == <<"b", "o", "2", "@", "x", ".", "i", "o">>

(***************************************************************************)
(* Password digests.  A bcrypt digest carries its salt and the hash of the *)
(* password under that salt; the hash is taken to be free of collisions,   *)
(* so the pair (salt, password) stands for it.  gensalt() draws 16 random  *)
(* bytes: every call yields a salt not seen before.                        *)
(***************************************************************************)
\* the absent password credential (password_hash is NULL)
NULL == [form |-> "NULL", salt |-> 0, plain |-> ""]

\* bcrypt.hashpw(password, salt)
bcrypt_hashpw(password, salt) ==
    [form |-> "bcrypt", salt |-> salt, plain |-> password]

\* bcrypt.checkpw(password, hashed): hash the password under the salt of the
\* digest and compare
bcrypt_checkpw(password, hashed) == bcrypt_hashpw(password, hashed.salt) = hashed

\* AuthService.hash_password; salt is what gensalt() returns to this call
hash_password(password, salt) == bcrypt_hashpw(password, salt)

\* AuthService.verify_password
\* bcrypt.checkpw raises ValueError("Invalid salt") for a digest that is no
\* bcrypt digest, and verify_password catches nothing
verify_password_raises(password, hashed) == hashed.form # "bcrypt"

verify_password_any(password, hashed) == hashed.form = "bcrypt"
verify_password(password, hashed) == bcrypt_checkpw(password, hashed)

(***************************************************************************)
(* Tables.  A users row keeps the columns the identity core reads.         *)
(***************************************************************************)
NoId == 0

\* Python's None in a column or an argument that holds a string, and the
\* truth value `if x:` gives a string or None
None == "None"
Truthy(x) == x \notin {None, ""}

\* attributes of class User: its columns and relationships, and the
\* relationship liked_products that models.py adds to the class at line 196
UserAttributes ==
    {"id", "username", "email", "password_hash", "gender", "selected_size",
     "avatar_url", "is_active", "is_verified", "created_at", "updated_at",
     "oauth_accounts", "favorite_brands", "favorite_styles",
     "sent_friend_requests", "received_friend_requests", "friendships",
     "friends", "liked_products"}

\* keyword arguments create_user passes to User(...)
create_user_kwargs ==
    {"id", "username", "email", "password_hash", "first_name", "last_name",
     "avatar_url", "is_verified", "is_profile_complete"}

\* attributes of user that the result of handle_oauth_login reads
oauth_summary_attrs ==
    {"id", "username", "email", "first_name", "last_name", "avatar_url",
     "is_profile_complete", "is_verified", "created_at", "updated_at"}

\* attributes of user that the response of register reads
register_summary_attrs ==
    {"id", "username", "email", "avatar_url", "is_verified", "created_at",
     "updated_at"}

\* the declarative constructor accepts a keyword only if the class has an
\* attribute of that name, and raises TypeError otherwise
ConstructorAccepts(attributes, kwargs) == kwargs \subseteq attributes

\* unique=True on users.username and users.email, primary key on users.id
UserConstraintsHold(tbl, row) ==
    \A u \in tbl : /\ u.id # row.id
                   /\ u.username # row.username
                   /\ u.email # row.email

\* AuthService.create_user: User(...), db.add, db.commit.  first_name,
\* last_name and is_profile_complete are keywords of the call and no
\* attributes of User, so the constructor raises before db.add; the commit
\* raises IntegrityError when a unique constraint rejects the row.
create_user_unchecked(tbl, row) == [exc |-> "none", users |-> tbl \cup {row}]
create_user(tbl, row) ==
    IF ~ConstructorAccepts(UserAttributes, create_user_kwargs)
    THEN [exc |-> "TypeError", users |-> tbl]
    ELSE IF ~UserConstraintsHold(tbl, row)
    THEN [exc |-> "IntegrityError", users |-> tbl]
    ELSE [exc |-> "none", users |-> tbl \cup {row}]

\* AuthService.get_user_by_email / get_user_by_username: the matching rows
\* (.first() takes one of them)
get_user_by_email(tbl, email) == {u \in tbl : u.email = email}
get_user_by_username(tbl, username) == {u \in tbl : u.username = username}

\* AuthService.get_user_by_id: the matching rows
get_user_by_id(tbl, user_id) == {u \in tbl : u.id = user_id}

\* AuthService.get_oauth_account: the matching rows
get_oauth_account_swapped(tbl, provider, provider_user_id) ==
    {l \in tbl : l.provider = provider_user_id /\ l.provider_user_id = provider}
get_oauth_account(tbl, provider, provider_user_id) ==
    {l \in tbl : l.provider = provider /\ l.provider_user_id = provider_user_id}

\* AuthService.create_oauth_account: OAuthAccount(...), db.add, db.commit.
\* oauth_accounts has a primary key and no other uniqueness constraint (its
\* __table_args__ is the empty tuple), so a fresh id is always accepted.
create_oauth_account_wrong_owner(tbl, id, user_id, provider, provider_user_id, access_token, utcnow) ==
    tbl \cup {[id |-> id, user_id |-> NoId, provider |-> provider,
               provider_user_id |-> provider_user_id,
               access_token |-> access_token, refresh_token |-> None,
               expires_at |-> None, updated_at |-> utcnow]}
create_oauth_account(tbl, id, user_id, provider, provider_user_id, access_token, utcnow) ==
    tbl \cup {[id |-> id, user_id |-> user_id, provider |-> provider,
               provider_user_id |-> provider_user_id,
               access_token |-> access_token, refresh_token |-> None,
               expires_at |-> None, updated_at |-> utcnow]}

\* the object get_oauth_account returns when it finds no row
NoLink ==
    [id |-> NoId, user_id |-> NoId, provider |-> "", provider_user_id |-> "",
     access_token |-> None, refresh_token |-> None, expires_at |-> None,
     updated_at |-> 0]

\* AuthService.update_oauth_account, lines 135-142: the attributes of the
\* loaded object oauth_account that the assignments have changed when line
\* 142 reads utcnow from the clock.  Each of access_token, refresh_token and
\* expires_at is assigned only if the value given is truthy; updated_at is
\* always assigned.  An assignment of the value the attribute was loaded
\* with changes nothing.
dirty_attributes(oauth_account, access_token, refresh_token, expires_at, utcnow) ==
    LET Dirty(given, loaded) == Truthy(given) /\ given # loaded
    IN  {a \in {"access_token"} : Dirty(access_token, oauth_account.access_token)}
        \cup {a \in {"refresh_token"} : Dirty(refresh_token, oauth_account.refresh_token)}
        \cup {a \in {"expires_at"} : Dirty(expires_at, oauth_account.expires_at)}
        \cup {a \in {"updated_at"} : utcnow # oauth_account.updated_at}

\* AuthService.update_oauth_account: the table after the flush of the
\* commit at line 143, when the clock reads flushed_at.  The UPDATE sets
\* the changed attributes and only those; when updated_at is not among
\* them, the column's onupdate=datetime.utcnow (models.py line 64) stamps
\* it with the clock of the flush; when nothing has changed, no UPDATE is
\* issued.
update_oauth_account_dropping(tbl, oauth_account, access_token, refresh_token, expires_at, utcnow, flushed_at) ==
    {l \in tbl : l.id # oauth_account.id}
update_oauth_account(tbl, oauth_account, access_token, refresh_token, expires_at, utcnow, flushed_at) ==
    LET dirty == dirty_attributes(oauth_account, access_token, refresh_token,
                                  expires_at, utcnow)
    IN  {IF l.id = oauth_account.id /\ dirty # {}
         THEN [l EXCEPT
                 !.access_token = IF "access_token" \in dirty THEN access_token ELSE @,
                 !.refresh_token = IF "refresh_token" \in dirty THEN refresh_token ELSE @,
                 !.expires_at = IF "expires_at" \in dirty THEN expires_at ELSE @,
                 !.updated_at = IF "updated_at" \in dirty THEN utcnow ELSE flushed_at]
         ELSE l : l \in tbl}

\* AuthService._generate_unique_username, lines 226-230: the base candidate
base_username_email_first(user_info) ==
    LET f == FilterAllowed(LocalPart(user_info.email))
    IN  IF f = <<>> THEN s_user ELSE f
base_username(user_info) ==
    LET hint == Lower(user_info.first_name)
        raw == IF hint # <<>> THEN hint ELSE LocalPart(user_info.email)
        f == FilterAllowed(raw)
    IN  IF f = <<>> THEN s_user ELSE f

\* lines 236-237: the next candidate and the next counter
next_probe_stuck(base, counter) ==
    [username |-> Suffixed(base, counter), counter |-> counter]
next_probe_skipping(base, counter) ==
    [username |-> Suffixed(base, counter + 1), counter |-> counter + 2]
next_probe(base, counter) ==
    [username |-> Suffixed(base, counter), counter |-> counter + 1]

(***************************************************************************)
(* Inputs.                                                                 *)
(***************************************************************************)
\* the providers handle_oauth_login dispatches on (lines 153-160)
SupportedProviders_any == {"google", "facebook", "github", "apple", "myspace"}
SupportedProviders == {"google", "facebook", "github", "apple"}

\* provider names presented by callers
RequestProviders == {"google", "github", "myspace"}

\* credentials presented by callers
Tokens == {"tok1"}

\* what a resolver of oauth_service reports for a credential: a profile, or
\* a failure (None)
NoInfo == [ok |-> FALSE, provider_user_id |-> "", email |-> <<>>,
           first_name |-> <<>>, is_verified |-> FALSE]
Profile(id, email, first_name, is_verified) ==
    [ok |-> TRUE, provider_user_id |-> id, email |-> email,
     first_name |-> first_name, is_verified |-> is_verified]
Profiles ==
    {Profile("g1", e_al, s_Al, TRUE),
     Profile("g1", e_bo, s_bang, FALSE),
     Profile("g2", e_c, s_Al, TRUE),
     Profile("g2", e_c, <<>>, FALSE),
     Profile("g3", e_dot, <<>>, FALSE)}

\* bodies of POST /api/v1/auth/register that pass the UserCreate validators:
\* usernames of three characters, passwords of nine with letters and digits
RegisterInputs ==
    {[username |-> s_bob, email |-> e_c, password |-> "pass1word"],
     [username |-> s_al1, email |-> e_c, password |-> "pass1word"],
     [username |-> s_bob, email |-> e_al, password |-> "pass1word"]}

\* rows of table users present when the service starts
SeedAl == [id |-> 1, username |-> s_al, email |-> e_al,
           password_hash |-> bcrypt_hashpw("pass1word", 1),
           is_verified |-> FALSE]
SeedAl1 == [id |-> 2, username |-> s_al1, email |-> e_bo,
            password_hash |-> NULL, is_verified |-> TRUE]
InitialUsers == {{}, {SeedAl}, {SeedAl, SeedAl1}}

\* the link through which the user without a password signs in
SeedAl1Link ==
    [id |-> 3, user_id |-> 2, provider |-> "github", provider_user_id |-> "g1",
     access_token |-> "tok1", refresh_token |-> None, expires_at |-> None,
     updated_at |-> 0]

\* a row whose password_hash column holds a string that is no bcrypt digest
SeedBo == [id |-> 3, username |-> s_bo, email |-> e_bo2,
           password_hash |-> [form |-> "malformed", salt |-> 0, plain |-> "pass1word"],
           is_verified |-> FALSE]

\* rows of table users present when the session endpoints are exercised
SessionUsers == {SeedAl, SeedAl1, SeedBo}

(***************************************************************************)
(* Session tokens.  The clock counts ticks of half a second, so that       *)
(* datetime.utcnow() can fall inside a second.  A token is the payload and *)
(* the key it was signed with; PyJWT writes the exp of a payload as whole  *)
(* seconds (timegm(exp.utctimetuple())) and, from release 2.6 on, rejects  *)
(* a token when exp <= now.                                                *)
(***************************************************************************)
TicksPerSecond == 2
SecondsPerMinute == 60

\* settings.ACCESS_TOKEN_EXPIRE_MINUTES and settings.SECRET_KEY
ACCESS_TOKEN_EXPIRE_MINUTES == 1
SECRET_KEY == "secret"

\* timedelta(minutes=m), in ticks
timedelta_minutes(m) == m * SecondsPerMinute * TicksPerSecond

\* the instants the clock is read at: the first ticks, and the ticks around
\* the end of the lifetime of a token issued at the first ticks
ClockValues ==
    {0, 1} \cup {t \in 0..(timedelta_minutes(ACCESS_TOKEN_EXPIRE_MINUTES) + MaxLate) :
                    t >= timedelta_minutes(ACCESS_TOKEN_EXPIRE_MINUTES) - 1}

NoToken == [form |-> "none", sub |-> NoId, exp |-> 0, key |-> ""]

\* jwt.encode(to_encode, key, algorithm): "exp" becomes whole seconds
jwt_encode(sub, expire, key) ==
    [form |-> "jwt", sub |-> sub, exp |-> expire \div TicksPerSecond, key |-> key]

\* AuthService.create_access_token(data={"sub": sub}, expires_delta) called
\* when the clock reads utcnow; a zero expires_delta is falsy
create_access_token(sub, expires_delta, utcnow) ==
    LET expire == IF expires_delta # 0
                  THEN utcnow + expires_delta
                  ELSE utcnow + timedelta_minutes(ACCESS_TOKEN_EXPIRE_MINUTES)
    IN  jwt_encode(sub, expire, SECRET_KEY)

\* jwt.decode(token, key, algorithms): the payload, or the PyJWTError raised
jwt_decode_late(token, key, utcnow) ==
    IF token.form # "jwt" THEN "DecodeError"
    ELSE IF token.key # key THEN "InvalidSignatureError"
    ELSE IF token.exp * TicksPerSecond < utcnow THEN "ExpiredSignatureError"
    ELSE "payload"
jwt_decode(token, key, utcnow) ==
    IF token.form # "jwt" THEN "DecodeError"
    ELSE IF token.key # key THEN "InvalidSignatureError"
    ELSE IF token.exp * TicksPerSecond <= utcnow THEN "ExpiredSignatureError"
    ELSE "payload"

\* AuthService.verify_token called when the clock reads utcnow: the "sub" of
\* the payload, or None (NoId) for every PyJWTError
verify_token_unsigned(token, utcnow) ==
    IF token.form = "jwt" /\ token.exp * TicksPerSecond > utcnow
    THEN token.sub ELSE NoId
verify_token_rejecting(token, utcnow) == NoId
verify_token(token, utcnow) ==
    IF jwt_decode(token, SECRET_KEY, utcnow) = "payload" THEN token.sub ELSE NoId

\* tokens no holder of the secret has made: one signed with another key, and
\* a string that is no JWT
ForgedTokens ==
    {[form |-> "jwt", sub |-> 1, exp |-> 1000, key |-> "guess"],
     [form |-> "garbage", sub |-> 1, exp |-> 1000, key |-> SECRET_KEY]}

\* UserLogin.is_email: ^[a-zA-Z0-9._%+-]+@[a-zA-Z0-9.-]+\.[a-zA-Z]{2,}$
is_email(s) ==
    \E i, j \in 1..Len(s) :
        /\ s[i] = "@" /\ s[j] = "."
        /\ 1 < i /\ i + 1 < j /\ j + 2 <= Len(s)
        /\ \A k \in 1..(i - 1) :
              s[k] \in Letters \cup Digits \cup {".", "_", "%", "+", "-"}
        /\ \A k \in (i + 1)..(j - 1) : s[k] \in Letters \cup Digits \cup {".", "-"}
        /\ \A k \in (j + 1)..Len(s) : s[k] \in Letters

\* UserLogin.is_username: ^[a-zA-Z0-9_\-#$!]+$ and not is_email
is_username(s) ==
    /\ Len(s) > 0
    /\ \A k \in 1..Len(s) : s[k] \in Letters \cup Digits \cup {"_", "-", "#", "$", "!"}
    /\ ~is_email(s)

s_bad == <<"a", "@">>

\* bodies of POST /api/v1/auth/login that pass the UserLogin validator
LoginInputs ==
    {[identifier |-> e_al, password |-> "pass1word"],
     [identifier |-> s_al, password |-> "wrong1pass"],
     [identifier |-> s_al1, password |-> "pass1word"],
     [identifier |-> e_c, password |-> "pass1word"],
     [identifier |-> s_bo, password |-> "pass1word"],
     [identifier |-> s_bad, password |-> "pass1word"]}

(***************************************************************************)
(* Requests.                                                               *)
(***************************************************************************)
IdleLoc ==
    [kind |-> "none", provider |-> "", token |-> "", user_info |-> NoInfo,
     user_data |-> [username |-> <<>>, email |-> <<>>, password |-> ""],
     password_hash |-> NULL,
     identifier |-> <<>>, access_token |-> NoToken,
     iat |-> 0,             \* what the clock read when access_token was made
     oauth_account |-> NoId, user |-> NoId,
     loaded |-> NoLink,     \* the object oauth_account as the session loaded it
     utcnow |-> 0,          \* what the clock read at line 142
     base_username |-> <<>>, username |-> <<>>, counter |-> 0,
     branch |-> "none",     \* which branch of the decision procedure ran
     nu |-> 0, nl |-> 0,    \* users and links this call has inserted
     new_link |-> NoId,     \* id of the link this call has inserted
     had_link |-> FALSE,    \* a link for the pair existed when the call began
     had_user |-> FALSE,    \* a user with the email existed when the call began
     users0 |-> 0,          \* number of users rows when the call began
     links0 |-> 0,          \* number of oauth_accounts rows when the call began
     alone |-> TRUE,        \* no other request has taken a step during this call
     begun |-> 0]           \* number of calls finished when this call began

InFlight == {q \in Procs : pc[q] # "idle"}

\* the locals after a step of p: p's become l, and every other request in
\* flight has now seen a concurrent step
Step(p, l) ==
    [q \in Procs |-> IF q = p THEN l
                     ELSE IF pc[q] # "idle" THEN [loc[q] EXCEPT !.alone = FALSE]
                     ELSE loc[q]]

\* the record of a finished call; du and dl are the changes of the row counts
\* between its beginning and its end
Entry(l, outcome, users_after, links_after) ==
    [kind |-> l.kind, provider |-> l.provider,
     provider_user_id |-> l.user_info.provider_user_id,
     email |-> IF l.kind = "register" THEN l.user_data.email ELSE l.user_info.email,
     first_name |-> l.user_info.first_name,
     is_verified |-> l.user_info.is_verified,
     branch |-> l.branch, outcome |-> outcome, user |-> l.user,
     password |-> l.user_data.password, password_hash |-> l.password_hash,
     access_token |-> l.access_token,
     username |-> l.username, nu |-> l.nu, nl |-> l.nl, new_link |-> l.new_link,
     had_link |-> l.had_link, had_user |-> l.had_user,
     \* a row holds the email or the username of the registration as it ends
     taken |-> \E u \in users : \/ u.email = l.user_data.email
                                 \/ u.username = l.user_data.username,
     du |-> Cardinality(users_after) - l.users0,
     dl |-> Cardinality(links_after) - l.links0,
     alone |-> l.alone, begun |-> l.begun]

\* p's call ends with `outcome` (a return value or the exception it raises)
Finish(p, l, outcome) ==
    /\ log' = Append(log, Entry(l, outcome, users', links'))
    /\ pc' = [pc EXCEPT ![p] = "idle"]
    /\ loc' = Step(p, IdleLoc)
    /\ UNCHANGED <<friend_requests, friendships>>

Goto(p, l, where) ==
    /\ pc' = [pc EXCEPT ![p] = where]
    /\ loc' = Step(p, l)
    /\ log' = log
    /\ UNCHANGED <<friend_requests, friendships>>

\* The values of the input sets are shared by the workers of the model
\* checker; comparing them here evaluates them in full before any worker
\* starts.  No input is the value a field has before a request sets it.
InputsDistinct ==
    /\ NoInfo \notin Profiles
    /\ IdleLoc.user_data \notin RegisterInputs

Init ==
    /\ InputsDistinct
    /\ users \in InitialUsers
    /\ links = {l \in {SeedAl1Link} : \E u \in users : u.id = l.user_id}
    /\ nextId = 4
    /\ nextSalt = 2
    /\ now = 0
    /\ issued = {}
    /\ pc = [p \in Procs |-> "idle"]
    /\ loc = [p \in Procs |-> IdleLoc]
    /\ log = <<>>
    /\ friend_requests = {}
    /\ friendships = {}

(***************************************************************************)
(* AuthService.handle_oauth_login                                          *)
(***************************************************************************)
\* lines 148-163: dispatch on the provider, resolve the credential
StartOAuthWith(p, providers, tokens, resolutions) ==
    /\ pc[p] = "idle"
    /\ UNCHANGED <<users, links, nextId, nextSalt, now, issued>>
    /\ Len(log) + Cardinality(InFlight) < MaxCalls
    /\ \E provider \in providers, token \in tokens, resolved \in resolutions :
        LET user_info == IF provider \in SupportedProviders THEN resolved ELSE NoInfo
            l == [IdleLoc EXCEPT
                    !.kind = "oauth", !.provider = provider, !.token = token,
                    !.user_info = user_info,
                    !.had_link = \E k \in links : /\ k.provider = provider
                                                   /\ k.provider_user_id = user_info.provider_user_id,
                    !.had_user = \E u \in users : u.email = user_info.email,
                    !.users0 = Cardinality(users), !.links0 = Cardinality(links),
                    !.alone = (InFlight = {}),
                    !.begun = Len(log)]
        IN  IF ~user_info.ok
            THEN Finish(p, l, "None")
            ELSE Goto(p, l, "get_oauth_account")

StartOAuth(p) == StartOAuthWith(p, RequestProviders, Tokens, Profiles \cup {NoInfo})

\* lines 166-170: look the link up
GetOAuthAccount(p) ==
    /\ pc[p] = "get_oauth_account"
    /\ UNCHANGED <<users, links, nextId, nextSalt, now, issued>>
    /\ LET found == get_oauth_account(links, loc[p].provider, loc[p].user_info.provider_user_id)
       IN  IF found # {}
           THEN \E l \in found :
                    Goto(p, [loc[p] EXCEPT !.oauth_account = l.id, !.loaded = l,
                                           !.branch = "link"],
                         "update_oauth_account")
           ELSE Goto(p, loc[p], "get_user_by_email")

\* line 172, update_oauth_account up to its commit (lines 135-142): the
\* assignments to the loaded object; line 142 reads the clock
UpdateOAuthAccount(p) ==
    /\ pc[p] = "update_oauth_account"
    /\ UNCHANGED <<users, links, nextId, nextSalt, now, issued>>
    /\ Goto(p, [loc[p] EXCEPT !.utcnow = now], "commit_oauth_account")

\* update_oauth_account, line 143: db.commit() flushes the assignments,
\* with the reading of the clock that line 142 took, and raises
\* StaleDataError when its UPDATE finds the row gone
CommitOAuthAccount(p) ==
    /\ pc[p] = "commit_oauth_account"
    /\ UNCHANGED <<users, nextId, nextSalt, now, issued>>
    /\ LET dirty == dirty_attributes(loc[p].loaded, loc[p].token, None, None,
                                     loc[p].utcnow)
           row == {l \in links : l.id = loc[p].oauth_account}
       IN  IF dirty # {} /\ row = {}
           THEN /\ links' = links
                /\ Finish(p, loc[p], "StaleDataError")
           ELSE /\ links' = update_oauth_account(links, loc[p].loaded, loc[p].token,
                                                 None, None, loc[p].utcnow, now)
                /\ Goto(p, loc[p], "refresh_oauth_account")

\* update_oauth_account, line 144: db.refresh(oauth_account) loads the row
\* as it is now, and raises InvalidRequestError when the row is gone
RefreshOAuthAccount(p) ==
    /\ pc[p] = "refresh_oauth_account"
    /\ UNCHANGED <<users, links, nextId, nextSalt, now, issued>>
    /\ LET refreshed == {l \in links : l.id = loc[p].oauth_account}
       IN  IF refreshed = {}
           THEN Finish(p, loc[p], "InvalidRequestError")
           ELSE \E l \in refreshed :
                    Goto(p, [loc[p] EXCEPT !.loaded = l], "oauth_account_user")

\* line 173: oauth_account.user loads the owner of the link
LoadOAuthAccountUser(p) ==
    /\ pc[p] = "oauth_account_user"
    /\ UNCHANGED <<users, links, nextId, nextSalt, now, issued>>
    /\ LET found == get_user_by_id(users, loc[p].loaded.user_id)
       IN  IF found = {}
           THEN Goto(p, [loc[p] EXCEPT !.user = NoId], "return")
           ELSE \E u \in found : Goto(p, [loc[p] EXCEPT !.user = u.id], "return")

\* lines 176-178 and, when no user has the email, lines 185 and 226-233
GetUserByEmail(p) ==
    /\ pc[p] = "get_user_by_email"
    /\ UNCHANGED <<users, links, nextId, nextSalt, now, issued>>
    /\ LET found == get_user_by_email(users, loc[p].user_info.email)
           base == base_username(loc[p].user_info)
       IN  IF found # {}
           THEN \E u \in found :
                    Goto(p, [loc[p] EXCEPT !.user = u.id, !.branch = "email"],
                         "create_oauth_account")
           ELSE Goto(p, [loc[p] EXCEPT !.branch = "new", !.base_username = base,
                                       !.username = base, !.counter = 1],
                     "probe_username")

\* lines 235-239: one test of the while loop
ProbeUsername(p) ==
    /\ pc[p] = "probe_username"
    /\ UNCHANGED <<users, links, nextId, nextSalt, now, issued>>
    /\ IF get_user_by_username(users, loc[p].username) # {}
       THEN LET n == next_probe(loc[p].base_username, loc[p].counter)
            IN  Goto(p, [loc[p] EXCEPT !.username = n.username, !.counter = n.counter],
                     "probe_username")
       ELSE Goto(p, loc[p], "create_user")

\* lines 186-194: create the user of the new account
CreateUser(p) ==
    /\ pc[p] = "create_user"
    /\ UNCHANGED <<links, nextSalt, now, issued>>
    /\ LET row == [id |-> nextId, username |-> loc[p].username,
                   email |-> loc[p].user_info.email, password_hash |-> NULL,
                   is_verified |-> loc[p].user_info.is_verified]
           r == create_user(users, row)
       IN  /\ users' = r.users
           /\ IF r.exc = "none"
              THEN /\ nextId' = nextId + 1
                   /\ Goto(p, [loc[p] EXCEPT !.user = row.id, !.nu = @ + 1],
                           "create_oauth_account")
              ELSE /\ nextId' = nextId
                   /\ Finish(p, loc[p], r.exc)

\* lines 180-182 and 196-198: link the identity to the user
CreateOAuthAccount_syncing(p) ==
    /\ pc[p] = "create_oauth_account"
    /\ UNCHANGED <<nextSalt, now, issued>>
    /\ users' = {IF u.id = loc[p].user
                 THEN [u EXCEPT !.is_verified = loc[p].user_info.is_verified]
                 ELSE u : u \in users}
    /\ links' = create_oauth_account(links, nextId, loc[p].user, loc[p].provider,
                                     loc[p].user_info.provider_user_id, loc[p].token,
                                     now)
    /\ nextId' = nextId + 1
    /\ Goto(p, [loc[p] EXCEPT !.nl = @ + 1, !.new_link = nextId], "return")
CreateOAuthAccount(p) ==
    /\ pc[p] = "create_oauth_account"
    /\ UNCHANGED <<users, nextSalt, now, issued>>
    /\ links' = create_oauth_account(links, nextId, loc[p].user, loc[p].provider,
                                     loc[p].user_info.provider_user_id, loc[p].token,
                                     now)
    /\ nextId' = nextId + 1
    /\ Goto(p, [loc[p] EXCEPT !.nl = @ + 1, !.new_link = nextId], "return")

\* lines 200-221: issue the session token, build the result
ReturnOAuth(p) ==
    /\ pc[p] = "return"
    /\ UNCHANGED <<users, links, nextId, nextSalt, now, issued>>
    /\ LET access_token ==
               create_access_token(loc[p].user,
                                   timedelta_minutes(ACCESS_TOKEN_EXPIRE_MINUTES), now)
           l == [loc[p] EXCEPT !.access_token = access_token, !.iat = now]
       IN  IF oauth_summary_attrs \subseteq UserAttributes
           THEN Finish(p, l, "returned")
           ELSE Finish(p, l, "AttributeError")

(***************************************************************************)
(* POST /api/v1/auth/register                                              *)
(***************************************************************************)
\* lines 258-265: the email check
StartRegister(p) ==
    /\ pc[p] = "idle"
    /\ UNCHANGED <<users, links, nextId, nextSalt, now, issued>>
    /\ Len(log) + Cardinality(InFlight) < MaxCalls
    /\ \E user_data \in RegisterInputs :
        LET l == [IdleLoc EXCEPT !.kind = "register", !.user_data = user_data,
                                 !.username = user_data.username,
                                 !.had_user = \E u \in users : u.email = user_data.email,
                                 !.users0 = Cardinality(users),
                                 !.links0 = Cardinality(links),
                                 !.alone = (InFlight = {}), !.begun = Len(log)]
        IN  IF get_user_by_email(users, user_data.email) # {}
            THEN Finish(p, l, "HTTP400")
            ELSE Goto(p, l, "register_username")

\* lines 267-271: the username check
RegisterCheckUsername(p) ==
    /\ pc[p] = "register_username"
    /\ UNCHANGED <<users, links, nextId, nextSalt, now, issued>>
    /\ IF get_user_by_username(users, loc[p].user_data.username) # {}
       THEN Finish(p, loc[p], "HTTP400")
       ELSE Goto(p, loc[p], "register_create")

\* lines 274-300: hash the password, create the user, issue the token
RegisterCreate(p) ==
    /\ pc[p] = "register_create"
    /\ UNCHANGED <<links, now, issued>>
    /\ nextSalt' = nextSalt + 1
    /\ LET password_hash == hash_password(loc[p].user_data.password, nextSalt)
           row == [id |-> nextId, username |-> loc[p].user_data.username,
                   email |-> loc[p].user_data.email,
                   password_hash |-> password_hash, is_verified |-> FALSE]
           r == create_user(users, row)
           l == [loc[p] EXCEPT !.password_hash = password_hash]
       IN  /\ users' = r.users
           /\ IF r.exc = "none"
              THEN /\ nextId' = nextId + 1
                   /\ Finish(p, [l EXCEPT !.user = row.id, !.nu = @ + 1],
                             IF register_summary_attrs \subseteq UserAttributes
                             THEN "returned" ELSE "AttributeError")
              ELSE /\ nextId' = nextId
                   /\ Finish(p, l, r.exc)

Next ==
    \E p \in Procs :
        \/ StartOAuth(p)
        \/ GetOAuthAccount(p)
        \/ UpdateOAuthAccount(p)
        \/ CommitOAuthAccount(p)
        \/ RefreshOAuthAccount(p)
        \/ LoadOAuthAccountUser(p)
        \/ GetUserByEmail(p)
        \/ ProbeUsername(p)
        \/ CreateUser(p)
        \/ CreateOAuthAccount(p)
        \/ ReturnOAuth(p)
        \/ StartRegister(p)
        \/ RegisterCheckUsername(p)
        \/ RegisterCreate(p)

Spec == Init /\ [][Next]_vars

(***************************************************************************)
(* Logins of an identity that is linked already, with the cached fields of *)
(* the link and the credential presented drawn from small sets.            *)
(***************************************************************************)
\* a link of (google, g1) owned by user 1, as an earlier login or another
\* writer of the table has left it
SeedLink(access_token, refresh_token, expires_at) ==
    [id |-> 3, user_id |-> 1, provider |-> "google", provider_user_id |-> "g1",
     access_token |-> access_token, refresh_token |-> refresh_token,
     expires_at |-> expires_at, updated_at |-> 0]

SeedLinks ==
    {SeedLink(a, r, e) : a \in {None, "tok1"}, r \in {None, "ref0"}, e \in {None, "exp0"}}

\* credentials presented for the linked identity
ReloginTokens == {"tok1", "tok2"}

\* what a credential presented for the linked identity resolves to
ReloginProfiles == {Profile("g1", e_al, s_Al, TRUE)}

LinkInit ==
    /\ NoInfo \notin ReloginProfiles
    /\ users = {SeedAl}
    /\ links \in {{l} : l \in SeedLinks}
    /\ nextId = 4
    /\ nextSalt = 2
    /\ now = 0
    /\ issued = {}
    /\ pc = [p \in Procs |-> "idle"]
    /\ loc = [p \in Procs |-> IdleLoc]
    /\ log = <<>>
    /\ friend_requests = {}
    /\ friendships = {}

\* lines 148-163 for a credential that resolves to the linked identity
StartRelogin(p) ==
    StartOAuthWith(p, {"google"}, ReloginTokens, ReloginProfiles)

\* datetime.utcnow() advances between any two steps
LinkTick ==
    /\ \E t \in ClockValues : t > now /\ now' = t
    /\ UNCHANGED <<users, links, nextId, nextSalt, issued, pc, loc, log,
                   friend_requests, friendships>>

LinkNext ==
    \/ LinkTick
    \/ \E p \in Procs :
        \/ StartRelogin(p)
        \/ GetOAuthAccount(p)
        \/ UpdateOAuthAccount(p)
        \/ CommitOAuthAccount(p)
        \/ RefreshOAuthAccount(p)
        \/ LoadOAuthAccountUser(p)
        \/ ReturnOAuth(p)

LinkSpec == LinkInit /\ [][LinkNext]_vars

\* a worker inside the loop of _generate_unique_username goes on with it
LiveSpec == Init /\ [][Next]_vars /\ \A p \in Procs : WF_vars(ProbeUsername(p))

\* database.drop_db: Base.metadata.drop_all drops the four tables and their
\* rows with them.  Requests served on the dropped tables are not modelled.
DropDb ==
    /\ users' = {}
    /\ links' = {}
    /\ friend_requests' = {}
    /\ friendships' = {}
    /\ UNCHANGED <<nextId, pc, loc, log, nextSalt, now, issued>>

MaintenanceSpec == Init /\ [][DropDb]_vars

(***************************************************************************)
(* The session endpoints: POST /api/v1/auth/login, POST                    *)
(* /api/v1/auth/logout, and the dependency get_current_user of every       *)
(* authenticated endpoint.  They read the users table and write no table.  *)
(***************************************************************************)
\* the session endpoints share no state that any of them writes, so their
\* requests are taken one at a time; the clock advances between their steps
SessionProcs == {"w1"}

\* the record of a finished request of a session endpoint; `at` is what the
\* clock read when get_current_user verified the token
SessionEntry(kind, l, outcome, token, expires_at, result) ==
    [kind |-> kind, identifier |-> l.identifier, password |-> l.user_data.password,
     user |-> l.user, outcome |-> outcome, token |-> token,
     expires_at |-> expires_at, result |-> result,
     at |-> IF kind = "get_current_user" THEN now ELSE 0]

FinishSession(p, entry) ==
    /\ log' = Append(log, entry)
    /\ pc' = [pc EXCEPT ![p] = "idle"]
    /\ loc' = Step(p, IdleLoc)
    /\ UNCHANGED <<friend_requests, friendships>>

\* datetime.utcnow() advances between any two steps
Tick ==
    /\ \E t \in ClockValues : t > now /\ now' = t
    /\ UNCHANGED <<users, links, nextId, nextSalt, issued, pc, loc, log,
                   friend_requests, friendships>>

\* login, lines 306-321: look the user up by email or by username
StartLogin(p) ==
    /\ pc[p] = "idle"
    /\ UNCHANGED <<users, links, nextId, nextSalt, now, issued>>
    /\ Len(log) + Cardinality(InFlight) < MaxRequests
    /\ \E user_data \in LoginInputs :
        LET l == [IdleLoc EXCEPT !.kind = "login",
                                 !.identifier = user_data.identifier,
                                 !.user_data.password = user_data.password,
                                 !.alone = (InFlight = {}), !.begun = Len(log)]
            found == IF is_email(user_data.identifier)
                     THEN get_user_by_email(users, user_data.identifier)
                     ELSE get_user_by_username(users, user_data.identifier)
        IN  IF ~is_email(user_data.identifier) /\ ~is_username(user_data.identifier)
            THEN FinishSession(p, SessionEntry("login", l, "HTTP400 Invalid identifier format",
                                               NoToken, 0, NoId))
            ELSE IF found = {}
            THEN FinishSession(p, SessionEntry("login", l, "HTTP401 Invalid credentials",
                                               NoToken, 0, NoId))
            ELSE \E user \in found :
                    IF user.password_hash = NULL
                    THEN FinishSession(p, SessionEntry("login", [l EXCEPT !.user = user.id],
                                                       "HTTP401 Invalid credentials",
                                                       NoToken, 0, NoId))
                    ELSE Goto(p, [l EXCEPT !.user = user.id,
                                           !.password_hash = user.password_hash],
                              "login_verify_password")

\* login, lines 323-333: check the password against the digest of the user,
\* then create the access token
LoginVerifyPassword(p) ==
    /\ pc[p] = "login_verify_password"
    /\ UNCHANGED <<users, links, nextId, nextSalt, now, issued>>
    /\ IF verify_password_raises(loc[p].user_data.password, loc[p].password_hash)
       THEN FinishSession(p, SessionEntry("login", loc[p], "ValueError", NoToken, 0, NoId))
       ELSE IF ~verify_password(loc[p].user_data.password, loc[p].password_hash)
       THEN FinishSession(p, SessionEntry("login", loc[p], "HTTP401 Invalid credentials",
                                          NoToken, 0, NoId))
       ELSE Goto(p, [loc[p] EXCEPT
                       !.access_token =
                           create_access_token(loc[p].user,
                                               timedelta_minutes(ACCESS_TOKEN_EXPIRE_MINUTES),
                                               now),
                       !.iat = now],
                 "login_respond")

\* login, lines 335-347: build the response; the caller now holds the token
LoginRespond(p) ==
    /\ pc[p] = "login_respond"
    /\ UNCHANGED <<users, links, nextId, nextSalt, now>>
    /\ issued' = issued \cup
                    {[token |-> loc[p].access_token, iat |-> loc[p].iat,
                      ttl |-> timedelta_minutes(ACCESS_TOKEN_EXPIRE_MINUTES)]}
    /\ FinishSession(p, SessionEntry("login", loc[p], "returned", loc[p].access_token,
                                     now + timedelta_minutes(ACCESS_TOKEN_EXPIRE_MINUTES),
                                     loc[p].user))

\* logout, lines 471-474
Logout(p) ==
    /\ pc[p] = "idle"
    /\ UNCHANGED <<users, links, nextId, nextSalt, now, issued>>
    /\ Len(log) + Cardinality(InFlight) < MaxRequests
    /\ FinishSession(p, SessionEntry("logout", [IdleLoc EXCEPT !.begun = Len(log)],
                                     "Successfully logged out", NoToken, 0, NoId))

\* get_current_user, lines 235-254, for a bearer token a caller presents
GetCurrentUser(p) ==
    /\ pc[p] = "idle"
    /\ UNCHANGED <<users, links, nextId, nextSalt, now, issued>>
    /\ Len(log) + Cardinality(InFlight) < MaxRequests
    /\ \E token \in {r.token : r \in issued} \cup ForgedTokens :
        LET user_id == verify_token(token, now)
            l == [IdleLoc EXCEPT !.user = user_id, !.begun = Len(log)]
        IN  IF user_id = NoId
            THEN FinishSession(p, SessionEntry("get_current_user", l,
                                               "HTTP401 Invalid token", token, 0, user_id))
            ELSE IF get_user_by_id(users, user_id) = {}
            THEN FinishSession(p, SessionEntry("get_current_user", l,
                                               "HTTP401 User not found", token, 0, user_id))
            ELSE FinishSession(p, SessionEntry("get_current_user", l, "returned",
                                               token, 0, user_id))

SessionNext ==
    \/ Tick
    \/ \E p \in SessionProcs :
        \/ StartLogin(p)
        \/ LoginVerifyPassword(p)
        \/ LoginRespond(p)
        \/ Logout(p)
        \/ GetCurrentUser(p)

\* the state after construction, with the rows of SessionUsers in the table
SessionInit ==
    /\ users = SessionUsers
    /\ links = {SeedAl1Link}
    /\ nextId = 4
    /\ nextSalt = 2
    /\ now = 0
    /\ issued = {}
    /\ pc = [p \in Procs |-> "idle"]
    /\ loc = [p \in Procs |-> IdleLoc]
    /\ log = <<>>
    /\ friend_requests = {}
    /\ friendships = {}

SessionSpec == SessionInit /\ [][SessionNext]_vars

(***************************************************************************)
(* The friend endpoints of main.py: send_friend_request, accept, reject    *)
(* and cancel of a friend request, remove_friend.  Requests are served one *)
(* at a time: a handler runs from its first query to its commit in one     *)
(* step.  current_user is the users row get_current_user resolved the      *)
(* caller's token to.  Under FriendSpec log holds the response of the last *)
(* request only, with the two tables as the request found them.            *)
(***************************************************************************)
s_cy == <<"c", "y">>
s_di == <<"d", "i">>
e_di == <<"d", "@", "x", ".", "i", "o">>

SeedCy == [id |-> 2, username |-> s_cy, email |-> e_c,
           password_hash |-> bcrypt_hashpw("pass1word", 1),
           is_verified |-> FALSE]
SeedDi == [id |-> 3, username |-> s_di, email |-> e_di,
           password_hash |-> bcrypt_hashpw("pass1word", 1),
           is_verified |-> TRUE]
FriendUsers == {SeedAl, SeedCy, SeedDi}

\* FriendRequestCreate.recipient_identifier: usernames and emails of users,
\* and a username of nobody
RecipientIdentifiers == {s_al, e_al, s_cy, e_c, s_di, s_bo}

\* '@' in request_data.recipient_identifier
has_at(s) == \E i \in 1..Len(s) : s[i] = "@"

\* send_friend_request, lines 891-894: the users the identifier names
\* (.first() takes one of them)
find_recipient(tbl, recipient_identifier) ==
    IF has_at(recipient_identifier)
    THEN {u \in tbl : u.email = recipient_identifier}
    ELSE {u \in tbl : u.username = recipient_identifier}

\* send_friend_request, lines 909-912: the friendships between two users, in
\* either direction
existing_friendship(tbl, a, b) ==
    {f \in tbl : \/ f.user_id = a /\ f.friend_id = b
                 \/ f.user_id = b /\ f.friend_id = a}

\* send_friend_request, lines 921-924: the friend requests between two users,
\* in either direction
existing_request_oneway(tbl, a, b) ==
    {r \in tbl : r.sender_id = a /\ r.recipient_id = b}
existing_request(tbl, a, b) ==
    {r \in tbl : \/ r.sender_id = a /\ r.recipient_id = b
                 \/ r.sender_id = b /\ r.recipient_id = a}

\* accept_friend_request and reject_friend_request: the pending request of
\* that id the user received
received_request_of_anyone(tbl, request_id, user_id) ==
    {r \in tbl : r.id = request_id /\ r.status = "pending"}
received_request(tbl, request_id, user_id) ==
    {r \in tbl : /\ r.id = request_id
                 /\ r.recipient_id = user_id
                 /\ r.status = "pending"}

\* cancel_friend_request: the pending request of that id the user sent
sent_request(tbl, request_id, user_id) ==
    {r \in tbl : /\ r.id = request_id
                 /\ r.sender_id = user_id
                 /\ r.status = "pending"}

\* the ids a caller may name: every primary key handed out so far, and one
\* that names no row
RequestIds == (Cardinality(FriendUsers) + 1)..nextId

FriendEntry(kind, current_user, arg, outcome) ==
    [kind |-> kind, caller |-> current_user.id, arg |-> arg, outcome |-> outcome,
     requests0 |-> friend_requests, friendships0 |-> friendships]

\* the handler returns or raises `outcome`
FriendRespond(entry) ==
    /\ log' = <<entry>>
    /\ UNCHANGED <<users, links, nextSalt, now, issued, pc, loc>>

\* the handler raises before it changed a row
FriendRefuse(entry) ==
    /\ FriendRespond(entry)
    /\ UNCHANGED <<friend_requests, friendships, nextId>>

\* POST /api/v1/friends/request
SendFriendRequest ==
    \E current_user \in users, recipient_identifier \in RecipientIdentifiers :
        LET found == find_recipient(users, recipient_identifier)
            Refuse(detail) ==
                FriendRefuse(FriendEntry("send", current_user, recipient_identifier, detail))
        IN  IF found = {}
            THEN Refuse("HTTP400 User not found")
            ELSE \E recipient \in found :
                IF recipient.id = current_user.id
                THEN Refuse("HTTP400 Cannot send friend request to yourself")
                ELSE IF existing_friendship(friendships, current_user.id, recipient.id) # {}
                THEN Refuse("HTTP400 Already friends")
                ELSE LET ex == existing_request(friend_requests, current_user.id,
                                                recipient.id)
                     IN  \/ /\ \E r \in ex : r.status = "pending"
                            /\ Refuse("HTTP400 Friend request already pending")
                         \/ /\ ex = {} \/ \E r \in ex : r.status # "pending"
                            /\ nextId <= Cardinality(FriendUsers) + MaxFriendRows
                            /\ friend_requests' = friend_requests \cup
                                   {[id |-> nextId, sender_id |-> current_user.id,
                                     recipient_id |-> recipient.id,
                                     status |-> "pending"]}
                            /\ nextId' = nextId + 1
                            /\ UNCHANGED friendships
                            /\ FriendRespond(FriendEntry("send", current_user,
                                                         recipient_identifier, "returned"))

\* POST /api/v1/friends/requests/{request_id}/accept
AcceptFriendRequest ==
    \E current_user \in users, request_id \in RequestIds :
        LET found == received_request(friend_requests, request_id, current_user.id)
        IN  IF found = {}
            THEN FriendRefuse(FriendEntry("accept", current_user, request_id, "HTTP404"))
            ELSE \E friend_request \in found :
                /\ nextId <= Cardinality(FriendUsers) + MaxFriendRows
                /\ friendships' = friendships \cup
                       {[id |-> nextId, user_id |-> friend_request.sender_id,
                         friend_id |-> friend_request.recipient_id]}
                /\ friend_requests' = friend_requests \ {friend_request}
                /\ nextId' = nextId + 1
                /\ FriendRespond(FriendEntry("accept", current_user, request_id,
                                             "returned"))

\* POST /api/v1/friends/requests/{request_id}/reject
RejectFriendRequest ==
    \E current_user \in users, request_id \in RequestIds :
        LET found == received_request(friend_requests, request_id, current_user.id)
        IN  IF found = {}
            THEN FriendRefuse(FriendEntry("reject", current_user, request_id, "HTTP404"))
            ELSE \E friend_request \in found :
                /\ friend_requests' = friend_requests \ {friend_request}
                /\ UNCHANGED <<friendships, nextId>>
                /\ FriendRespond(FriendEntry("reject", current_user, request_id,
                                             "returned"))

\* DELETE /api/v1/friends/requests/{request_id}/cancel
CancelFriendRequest ==
    \E current_user \in users, request_id \in RequestIds :
        LET found == sent_request(friend_requests, request_id, current_user.id)
        IN  IF found = {}
            THEN FriendRefuse(FriendEntry("cancel", current_user, request_id, "HTTP404"))
            ELSE \E friend_request \in found :
                /\ friend_requests' = friend_requests \ {friend_request}
                /\ UNCHANGED <<friendships, nextId>>
                /\ FriendRespond(FriendEntry("cancel", current_user, request_id,
                                             "returned"))

\* DELETE /api/v1/friends/{friend_id}
RemoveFriend ==
    \E current_user \in users, friend_id \in {u.id : u \in users} \cup {NoId} :
        LET found == existing_friendship(friendships, current_user.id, friend_id)
        IN  IF found = {}
            THEN FriendRefuse(FriendEntry("remove", current_user, friend_id, "HTTP404"))
            ELSE \E friendship \in found :
                /\ friendships' = friendships \ {friendship}
                /\ UNCHANGED <<friend_requests, nextId>>
                /\ FriendRespond(FriendEntry("remove", current_user, friend_id,
                                             "returned"))

FriendNext ==
    \/ SendFriendRequest
    \/ AcceptFriendRequest
    \/ RejectFriendRequest
    \/ CancelFriendRequest
    \/ RemoveFriend

\* the state after construction, with the rows of FriendUsers in the table
FriendInit ==
    /\ users = FriendUsers
    /\ links = {}
    /\ nextId = Cardinality(FriendUsers) + 1
    /\ nextSalt = 2
    /\ now = 0
    /\ issued = {}
    /\ pc = [p \in Procs |-> "idle"]
    /\ loc = [p \in Procs |-> IdleLoc]
    /\ log = <<>>
    /\ friend_requests = {}
    /\ friendships = {}

FriendSpec == FriendInit /\ [][FriendNext]_vars

(***************************************************************************)
(* Properties.                                                             *)
(***************************************************************************)
Calls == 1..Len(log)

\* a finished OAuth login whose credential resolved to a profile
Resolved(e) == e.kind = "oauth" /\ e.branch # "none"

SamePair(a, b) ==
    a.provider = b.provider /\ a.provider_user_id = b.provider_user_id

LinksOf(provider, provider_user_id) ==
    {l \in links : l.provider = provider /\ l.provider_user_id = provider_user_id}

\* C1: two OAuth logins in succession (the second begins after the first has
\* ended, nothing else runs meanwhile) that resolve to the same (provider,
\* provider_user_id) both return the same user id, and the second inserts
\* no user and no link.
C1_Idempotent ==
    \A i, j \in Calls :
        (/\ i < j /\ Resolved(log[i]) /\ Resolved(log[j])
         /\ SamePair(log[i], log[j])
         /\ log[j].begun >= i /\ log[i].alone /\ log[j].alone)
        => /\ log[i].outcome = "returned"
           /\ log[j].outcome = "returned"
           /\ log[i].user = log[j].user
           /\ log[j].du = 0 /\ log[j].dl = 0

\* C2: two simultaneous OAuth logins for the same pair and email, begun when
\* neither a link for the pair nor a user with the email existed, leave
\* exactly one user with that email and exactly one link for that pair.
C2_ExactlyOne ==
    (/\ Len(log) = 2 /\ InFlight = {}
     /\ Resolved(log[1]) /\ Resolved(log[2]) /\ SamePair(log[1], log[2])
     /\ log[1].email = log[2].email
     /\ log[1].begun = 0 /\ log[2].begun = 0
     /\ ~log[1].had_link /\ ~log[1].had_user
     /\ ~log[2].had_link /\ ~log[2].had_user)
    => /\ Cardinality({u \in users : u.email = log[1].email}) = 1
       /\ Cardinality(LinksOf(log[1].provider, log[1].provider_user_id)) = 1

\* C3: no two rows of oauth_accounts share (provider, provider_user_id).
C3_PairUnique ==
    \A a, b \in links : SamePair(a, b) => a = b

\* C4: of two overlapping OAuth logins for the same pair that both missed
\* the link at their lookup, the one that ends second (it lost the race to
\* the link the first inserted) raises no error and returns the same user
\* as the first.
C4_LoserRecovers ==
    \A i, j \in Calls :
        (/\ i < j /\ Resolved(log[i]) /\ Resolved(log[j])
         /\ SamePair(log[i], log[j])
         /\ log[j].begun < i
         /\ log[i].branch # "link" /\ log[j].branch # "link"
         /\ log[i].new_link # NoId)
        => /\ log[j].outcome = "returned"
           /\ log[i].outcome = "returned"
           /\ log[j].user = log[i].user

\* C5: when a link for (provider, provider_user_id) exists at the lookup,
\* the login takes that link, resolves to the user that owns it and inserts
\* no user and no link, whatever user the profile's email belongs to.
C5_LinkPrecedence ==
    [][\A p \in Procs :
        LET mine == {l \in links : /\ l.provider = loc[p].provider
                                   /\ l.provider_user_id = loc[p].user_info.provider_user_id}
        IN  /\ (pc[p] = "get_oauth_account" /\ pc'[p] # "get_oauth_account" /\ mine # {})
                => /\ pc'[p] = "update_oauth_account"
                   /\ loc'[p].oauth_account \in {l.id : l \in mine}
            /\ (pc[p] = "update_oauth_account" /\ pc'[p] # "update_oauth_account")
                => /\ pc'[p] = "commit_oauth_account"
                   /\ users' = users /\ links' = links
            /\ (pc[p] = "commit_oauth_account" /\ pc'[p] # "commit_oauth_account")
                => /\ pc'[p] = "refresh_oauth_account"
                   /\ users' = users
                   /\ {l.id : l \in links'} = {l.id : l \in links}
            /\ (pc[p] = "refresh_oauth_account" /\ pc'[p] # "refresh_oauth_account")
                => /\ pc'[p] = "oauth_account_user"
                   /\ users' = users /\ links' = links
            /\ (pc[p] = "oauth_account_user" /\ pc'[p] # "oauth_account_user")
                => /\ pc'[p] = "return"
                   /\ \E l \in mine : /\ l.id = loc[p].oauth_account
                                      /\ loc'[p].user = l.user_id
                   /\ users' = users /\ links' = links
            /\ (pc[p] = "return" /\ loc[p].oauth_account # NoId /\ pc'[p] = "idle")
                => /\ users' = users /\ links' = links
                   /\ log'[Len(log')].user = loc[p].user
                   /\ log'[Len(log')].nu = 0 /\ log'[Len(log')].nl = 0
      ]_vars

\* C5 witness: a login has resolved through an existing link to its owner
\* while the profile's email is that of another user.
C5_Witness ==
    \E p \in Procs :
        /\ pc[p] = "return" /\ loc[p].oauth_account # NoId
        /\ \E l \in links : l.id = loc[p].oauth_account /\ l.user_id = loc[p].user
        /\ \E u \in users : u.email = loc[p].user_info.email /\ u.id # loc[p].user

\* C6: an OAuth login that finds no link for the pair and a user with the
\* profile's email leaves the users rows as they are and adds exactly one
\* link, owned by the user with that email and carrying the pair.
C6_EmailMerge ==
    \A i \in Calls :
        LET e == log[i]
        IN  (Resolved(e) /\ (e.branch = "email" \/ (e.alone /\ ~e.had_link /\ e.had_user)))
            => /\ e.branch = "email"
               /\ e.nu = 0 /\ e.nl = 1
               /\ e.alone => (e.du = 0 /\ e.dl = 1)
               /\ \E l \in links, u \in users :
                    /\ l.id = e.new_link
                    /\ l.provider = e.provider
                    /\ l.provider_user_id = e.provider_user_id
                    /\ l.user_id = u.id
                    /\ u.email = e.email

\* C6 witness: a login run alone has merged into the user with its email.
C6_Witness ==
    \E i \in Calls :
        /\ Resolved(log[i]) /\ log[i].alone /\ ~log[i].had_link /\ log[i].had_user
        /\ log[i].dl = 1 /\ log[i].du = 0

\* C7: an OAuth login run alone, with no link for the pair and no user with
\* the email, inserts exactly one user and exactly one link owned by that
\* user, and no other user carries the new user's username.
C7_NewAccount ==
    \A i \in Calls :
        LET e == log[i]
        IN  (Resolved(e) /\ e.alone /\ ~e.had_link /\ ~e.had_user)
            => /\ e.du = 1 /\ e.dl = 1
               /\ \E l \in links, u \in users :
                    /\ l.id = e.new_link /\ l.user_id = u.id /\ u.id = e.user
                    /\ u.username = e.username
                    /\ \A v \in users : v.username = u.username => v = u

\* C8: username generation probes base, base1, base2, ... in this order and
\* stops at the first candidate no user has: the result is base when base
\* is free, and otherwise base followed by the smallest k >= 1 with base+k
\* free.
C8_FirstFree ==
    \A p \in Procs :
        (pc[p] \in {"probe_username", "create_user"})
        => LET b == loc[p].base_username
               n == loc[p].counter
               names == {u.username : u \in users}
           IN  /\ n >= 1
               /\ loc[p].username = IF n = 1 THEN b ELSE b \o IntStr(n - 1)
               /\ n > 1 => b \in names
               /\ \A k \in 1..(n - 2) : (b \o IntStr(k)) \in names
               /\ pc[p] = "create_user" => loc[p].username \notin names

\* C8 witness: with usernames al and al1 taken and the hint Al, the probe
\* has ended at al2.
C8_Witness ==
    \E p \in Procs :
        /\ pc[p] = "create_user"
        /\ {s_al, s_al1} \subseteq {u.username : u \in users}
        /\ loc[p].user_info.first_name = s_Al
        /\ loc[p].username = s_al2

\* the base candidate as C9 states it: the filtered lowercased hint, the
\* local part of the email when that is empty, "user" when both are empty
ClaimedBase(user_info) ==
    LET hint == FilterAllowed(Lower(user_info.first_name))
        mail == FilterAllowed(LocalPart(user_info.email))
    IN  IF hint # <<>> THEN hint ELSE IF mail # <<>> THEN mail ELSE s_user

\* C9: the base username is the hint lowercased and filtered; when the
\* filtered hint is empty it is the local part of the email, and "user" only
\* when that is empty too.
C9_BaseFallback ==
    \A p \in Procs :
        (pc[p] \in {"probe_username", "create_user"})
        => loc[p].base_username = ClaimedBase(loc[p].user_info)

\* C10: no two users rows share an email, and no two share a username.
C10_UsersUnique ==
    \A u, v \in users :
        (u.email = v.email \/ u.username = v.username) => u = v

\* C10 witness: two overlapping registrations with the same email have both
\* passed the existence checks and attempted the insert.
C10_Witness ==
    /\ Len(log) = 2
    /\ log[1].kind = "register" /\ log[2].kind = "register"
    /\ log[1].email = log[2].email
    /\ log[1].begun = 0 /\ log[2].begun = 0
    /\ log[1].outcome # "HTTP400" /\ log[2].outcome # "HTTP400"

C12_UnresolvedIsNone ==
    [][(Len(log') = Len(log) + 1)
       => LET e == log'[Len(log')]
          IN  (/\ e.kind = "oauth"
               /\ \/ e.provider \notin {"google", "facebook", "github", "apple"}
                  \/ e.provider_user_id = "")
              => /\ e.outcome = "None"
                 /\ e.begun = Len(log)
                 /\ users' = users /\ links' = links]_vars

\* one login with an unsupported provider and one whose resolver failed have
\* both ended, with rows present in users
C12_Witness ==
    \E i, j \in Calls :
        /\ log[i].kind = "oauth" /\ log[i].provider = "myspace"
        /\ log[i].outcome = "None"
        /\ log[j].kind = "oauth" /\ log[j].provider = "google"
        /\ log[j].provider_user_id = "" /\ log[j].outcome = "None"
        /\ users # {}

\* C16: an OAuth login that has taken the new-account branch has created a
\* user that has no password credential and whose verification flag is the
\* is_verified of the resolved profile.
C16_NewUserPasswordless ==
    \A i \in Calls :
        (log[i].kind = "oauth" /\ log[i].branch = "new")
        => \E u \in users : /\ u.id = log[i].user
                            /\ u.password_hash = NULL
                            /\ u.is_verified = log[i].is_verified

\* C18: an OAuth login that resolves to an identity whose link is owned by a
\* user without a password credential returns, and what it returns is that
\* user.
C18_PasswordlessLogsIn ==
    \A i \in Calls :
        (/\ log[i].kind = "oauth" /\ log[i].branch = "link"
         /\ \E u \in users : u.id = log[i].user /\ u.password_hash = NULL)
        => log[i].outcome = "returned"

\* C15: every OAuth login that resolved a profile, whichever of the three
\* branches it took, has returned; the token it returned verifies to the id
\* of the user that owns the link of its pair, and the summary it returned
\* describes that user.
C15_TokenForOwner ==
    \A i \in Calls :
        (Resolved(log[i]) /\ log[i].branch \in {"link", "email", "new"})
        => /\ log[i].outcome = "returned"
           /\ \E l \in LinksOf(log[i].provider, log[i].provider_user_id) :
                /\ verify_token(log[i].access_token, now) = l.user_id
                /\ log[i].user = l.user_id

(***************************************************************************)
(* Properties of the session endpoints.                                    *)
(***************************************************************************)
\* the finished request that a step has appended to the log
Ended == IF Len(log') = Len(log) + 1 THEN {log'[Len(log')]} ELSE {}

\* the calls of get_current_user
Verifications == {i \in Calls : log[i].kind = "get_current_user"}

\* the tokens login had handed out, with their issue records, when call i
\* verified its token
IssuesOf(i) == {r \in issued : r.token = log[i].token /\ r.iat <= log[i].at}

\* C13 as stated: a token issued at time iat with lifetime ttl verifies to its
\* subject at every time strictly before iat + ttl and is invalid at every
\* time from iat + ttl on.
C13_ValidUntilExpiry ==
    \A i \in Verifications : \A r \in IssuesOf(i) :
        /\ log[i].at < r.iat + r.ttl => log[i].result = r.token.sub
        /\ log[i].at >= r.iat + r.ttl => log[i].result = NoId

\* C13 amended: a token issued at time iat with lifetime ttl verifies to its
\* subject at every time strictly before iat + ttl cut down to a whole
\* second, and is invalid at every time from that second on.
C13_ValidUntilWholeSecond ==
    \A i \in Verifications : \A r \in IssuesOf(i) :
        LET cut == ((r.iat + r.ttl) \div TicksPerSecond) * TicksPerSecond
        IN  /\ log[i].at < cut => log[i].result = r.token.sub
            /\ log[i].at >= cut => log[i].result = NoId

\* a token issued inside a second has been verified after the whole second
\* its expiry was cut down to and before its lifetime had passed, and another
\* verification of an issued token has returned its subject
C13_Witness ==
    \E i, j \in Verifications :
        /\ \E r \in IssuesOf(i) :
              /\ r.iat % TicksPerSecond # 0
              /\ log[i].at >= ((r.iat + r.ttl) \div TicksPerSecond) * TicksPerSecond
              /\ log[i].at < r.iat + r.ttl
        /\ IssuesOf(j) # {} /\ log[j].result # NoId

\* C14: get_current_user obtains a subject from verify_token only for a token
\* signed with the secret whose expiry is in the future, and the subject is
\* the one the token carries; for a token with another signature, for a
\* string that is no token and for an expired token verify_token returns
\* None, and the caller gets the one response 401 "Invalid token".
C14_SubjectOnlyIfValid ==
    \A i \in Verifications :
        LET e == log[i]
            wellformed == e.token.form = "jwt"
            signed == e.token.key = SECRET_KEY
            fresh == e.at < e.token.exp * TicksPerSecond
        IN  /\ e.result # NoId
               => wellformed /\ signed /\ fresh /\ e.result = e.token.sub
            /\ ~(wellformed /\ signed /\ fresh)
               => e.result = NoId /\ e.outcome = "HTTP401 Invalid token"

\* an expired token that login had issued and a token signed with another
\* key have both been refused
C14_Witness ==
    \E i, j \in Verifications :
        /\ IssuesOf(i) # {} /\ log[i].at >= log[i].token.exp * TicksPerSecond
        /\ log[i].result = NoId
        /\ log[j].token.key # SECRET_KEY /\ log[j].result = NoId
        /\ log[i].outcome = log[j].outcome

\* C17: a login with an identifier of email or username shape ends with the
\* one response 401 "Invalid credentials" and without a token when no user
\* has the identifier, when the user has no password credential and when the
\* password is not the user's; an identifier of neither shape is refused
\* with 400 whatever the store holds; and no step of a login changes the
\* users or the links.
C17_SameInvalidCredentials ==
    [][/\ ((\E p \in Procs : loc[p].kind = "login" \/ loc'[p].kind = "login")
           \/ (\E e \in Ended : e.kind = "login"))
          => users' = users /\ links' = links
       /\ \A e \in Ended :
            e.kind = "login" =>
            LET rows == {u \in users : u.email = e.identifier \/ u.username = e.identifier}
                shaped == is_email(e.identifier) \/ is_username(e.identifier)
            IN  /\ (/\ shaped
                    /\ \/ rows = {}
                       \/ \E u \in rows :
                            \/ u.password_hash = NULL
                            \/ /\ u.password_hash.form = "bcrypt"
                               /\ u.password_hash.plain # e.password)
                   => e.outcome = "HTTP401 Invalid credentials" /\ e.token = NoToken
                /\ ~shaped => e.outcome = "HTTP400 Invalid identifier format"]_vars

\* logins with an unknown identifier, for a user without a password and with
\* a wrong password have all ended, with the same response
C17_Witness ==
    \E i, j, k \in Calls :
        /\ log[i].kind = "login" /\ log[j].kind = "login" /\ log[k].kind = "login"
        /\ log[i].identifier = e_c /\ \A u \in users : u.email # e_c
        /\ log[j].identifier = s_al1
        /\ \E u \in users : u.username = s_al1 /\ u.password_hash = NULL
        /\ log[k].identifier = s_al /\ log[k].password = "wrong1pass"
        /\ \E u \in users : u.username = s_al /\ u.password_hash # NULL
        /\ log[i].outcome = log[j].outcome /\ log[j].outcome = log[k].outcome

\* C19: a logout changes no table, no issued token and nothing else, and a
\* token that login issued before a logout still verifies to its subject
\* after the logout, as long as its expiry is in the future.
C19_LogoutKeepsTokens ==
    [][\A e \in Ended :
         /\ e.kind = "logout"
            => /\ e.outcome = "Successfully logged out"
               /\ UNCHANGED <<users, links, nextId, nextSalt, now, issued>>
         /\ (/\ e.kind = "get_current_user"
             /\ e.at < e.token.exp * TicksPerSecond
             /\ \E j, k \in Calls :
                   /\ j < k /\ log[k].kind = "logout"
                   /\ log[j].kind = "login" /\ log[j].outcome = "returned"
                   /\ log[j].token = e.token)
            => e.result = e.token.sub /\ e.outcome = "returned"]_vars

\* a token issued by a login has been verified after a logout and has
\* returned its subject
C19_Witness ==
    \E j, k, i \in Calls :
        /\ j < k /\ k < i
        /\ log[j].kind = "login" /\ log[j].outcome = "returned"
        /\ log[k].kind = "logout"
        /\ log[i].kind = "get_current_user" /\ log[i].token = log[j].token
        /\ log[i].result = log[j].user /\ log[i].result # NoId

\* C21: a password login against a user whose stored digest is no well-formed
\* hash ends with 401 "Invalid credentials": verify_password returns false
\* and raises nothing.
C21_MalformedDigestRefused ==
    \A i \in Calls :
        (/\ log[i].kind = "login"
         /\ \E u \in users : /\ u.id = log[i].user
                             /\ u.password_hash.form = "malformed")
        => log[i].outcome = "HTTP401 Invalid credentials"

\* C22: the expires_at a login returns together with a token is the expiry
\* the token carries, whatever time has passed between the steps of the
\* login.
C22_ExpiresAtIsTokenExpiry ==
    \A i \in Calls :
        (log[i].kind = "login" /\ log[i].outcome = "returned")
        => log[i].expires_at = log[i].token.exp * TicksPerSecond

\* C23: a worker that is generating a username leaves the loop; while it
\* stays in the loop each new candidate is the base with a suffix one larger
\* than the one before, and it leaves the loop with the candidate it last
\* probed, which no user holds.
C23_ProbeTerminates ==
    /\ \A p \in Procs : (pc[p] = "probe_username") ~> (pc[p] # "probe_username")
    /\ [][\A p \in Procs :
            pc[p] = "probe_username" =>
            /\ (pc'[p] = "probe_username" /\ loc'[p].username # loc[p].username)
               => /\ loc'[p].counter = loc[p].counter + 1
                  /\ loc'[p].username = loc[p].base_username \o IntStr(loc[p].counter)
                  /\ \E u \in users : u.username = loc[p].username
            /\ pc'[p] = "probe_username" => loc'[p].counter >= loc[p].counter
            /\ pc'[p] # "probe_username"
               => /\ pc'[p] = "create_user"
                  /\ loc'[p].username = loc[p].username
                  /\ \A u \in users : u.username # loc[p].username]_vars

\* with al and al1 taken a worker has left the loop after the probes of al,
\* al1 and al2
C23_Witness ==
    \E p \in Procs :
        /\ pc[p] = "create_user"
        /\ loc[p].base_username = s_al /\ loc[p].counter = 3
        /\ \A u \in users : u.username # loc[p].username

\* C24: no step of a register or an OAuth login removes a users row or an
\* oauth_accounts row, changes the id of a row, or changes the owner, the
\* provider or the provider_user_id of a link.
C24_RecordsOnlyGrow ==
    [][/\ \A u \in users : \E v \in users' : v.id = u.id
       /\ \A l \in links :
            \E k \in links' : /\ k.id = l.id /\ k.user_id = l.user_id
                              /\ k.provider = l.provider
                              /\ k.provider_user_id = l.provider_user_id
       /\ Cardinality(users') >= Cardinality(users)
       /\ Cardinality(links') >= Cardinality(links)]_vars

\* a link that one login inserted has been updated by a later login, with
\* rows in users
C24_Witness ==
    /\ users # {} /\ links # {}
    /\ \E i, j \in Calls :
          /\ log[i].kind = "oauth" /\ log[i].nl = 1
          /\ log[j].kind = "oauth" /\ log[j].branch = "link" /\ log[j].nl = 0
          /\ SamePair(log[i], log[j])

(***************************************************************************)
(* Properties of the existing-link path.                                   *)
(***************************************************************************)
\* C25: the step of the existing-link path that updates the link keeps the
\* number of links, makes the cached access token the credential presented,
\* refreshes the cached expiry, and leaves the fields for which
\* no value is supplied as they were.
C25_LinkRefreshed ==
    [][\A p \in Procs :
         (pc[p] = "commit_oauth_account" /\ pc'[p] = "refresh_oauth_account")
         => \E l \in links, k \in links' :
              /\ l.id = loc[p].oauth_account /\ k.id = l.id
              /\ Cardinality(links') = Cardinality(links)
              /\ k.access_token = loc[p].token
              /\ k.expires_at # l.expires_at
              /\ k.refresh_token = l.refresh_token]_vars

\* C26: no step of an OAuth login that takes the email-match branch changes
\* a users row: the user found by email keeps its username, email, password
\* credential and verification flag, whatever the resolved profile says.
C26_EmailMatchKeepsUser ==
    [][\A p \in Procs :
         (/\ pc'[p] # pc[p]
          /\ loc[p].branch = "email" \/ loc'[p].branch = "email")
         => users' = users]_vars

\* a login has taken the email-match branch with a profile whose is_verified
\* and name hint differ from the verification flag and username of the user
C26_Witness ==
    \E i \in Calls :
        /\ log[i].kind = "oauth" /\ log[i].branch = "email" /\ log[i].nl = 1
        /\ \E u \in users : /\ u.id = log[i].user
                            /\ u.is_verified # log[i].is_verified
                            /\ u.username # Lower(log[i].first_name)

\* the records between two users: pending friend requests and friendships,
\* in either direction
Between(a, b) ==
    {r \in friend_requests : {r.sender_id, r.recipient_id} = {a, b}}
    \cup {f \in friendships : {f.user_id, f.friend_id} = {a, b}}

\* C29: after any sequence of send, accept, reject, cancel and remove-friend
\* requests served one at a time, two distinct users have at most one record
\* between them (a pending friend request or a friendship), and no user has
\* a friend request to or a friendship with themself.
C29_OneRecordPerPair ==
    /\ \A a, b \in {u.id : u \in users} :
          IF a = b THEN Between(a, b) = {}
          ELSE Cardinality(Between(a, b)) <= 1
    /\ \A r \in friend_requests : r.status = "pending"

\* a user was refused a friend request to one who has a request to them
\* pending, while another pair are friends
C29_Witness ==
    /\ Len(log) = 1 /\ log[1].kind = "send"
    /\ log[1].outcome = "HTTP400 Friend request already pending"
    /\ \E r \in friend_requests : r.recipient_id = log[1].caller
    /\ friendships # {}

\* the request an accept, reject or cancel names, if the caller may resolve it
ResolvableBy(e) ==
    {r \in e.requests0 :
        /\ r.id = e.arg /\ r.status = "pending"
        /\ IF e.kind = "cancel" THEN r.sender_id = e.caller
                                ELSE r.recipient_id = e.caller}

\* C30: an accept or a reject by anyone but the recipient of the request, a
\* cancel by anyone but its sender, and any of them on a request that is not
\* pending any more, answers 404 and changes no friend request and no
\* friendship; a successful accept removes the request and adds exactly one
\* friendship, between its sender and its recipient; a successful reject or
\* cancel removes the request only.
C30_OnlyThePartyResolves ==
    (Len(log) = 1 /\ log[1].kind \in {"accept", "reject", "cancel"})
    => LET e == log[1]
       IN  IF ResolvableBy(e) = {}
           THEN /\ e.outcome = "HTTP404"
                /\ friend_requests = e.requests0
                /\ friendships = e.friendships0
           ELSE /\ e.outcome = "returned"
                /\ friend_requests = e.requests0 \ ResolvableBy(e)
                /\ IF e.kind = "accept"
                   THEN /\ e.friendships0 \subseteq friendships
                        /\ Cardinality(friendships \ e.friendships0) = 1
                        /\ \A r \in ResolvableBy(e) :
                              /\ \A f \in friendships \ e.friendships0 :
                                    {f.user_id, f.friend_id} = {r.sender_id, r.recipient_id}
                              /\ Cardinality(Between(r.sender_id, r.recipient_id)) = 1
                   ELSE friendships = e.friendships0

\* after a request was accepted, a user who is neither sender nor recipient
\* of another pending request was refused its acceptance
C30_Witness ==
    /\ Len(log) = 1 /\ log[1].kind = "accept" /\ log[1].outcome = "HTTP404"
    /\ friendships # {}
    /\ \E r \in friend_requests :
          /\ r.id = log[1].arg /\ r.status = "pending"
          /\ log[1].caller \notin {r.sender_id, r.recipient_id}

====
